---- MODULE Spec2Model ----
(***************************************************************************)
(* Lizzy Alpha: the Write stage's scene-generation pipeline.               *)
(*                                                                         *)
(* The driver is LizzyOrchestrator.run_complete_pipeline, step 5 and 6     *)
(* (src/orchestrator.py:351-406).  It drives a LizzyWrite object.  Of the  *)
(* methods it calls, only save_scene_draft is defined in src/write.py;     *)
(* get_story_outline, get_latest_brainstorm_table, get_brainstorm_for_     *)
(* scene, get_prev_scene_text, summarize_prev_if_long, make_outline_       *)
(* snapshot, get_next_scene_outline_desc, build_scene_prompt (keyword      *)
(* form), generate_scene_text, save_finalized_scene and export_full_script *)
(* are not in src/ and are modelled from spec.md sections 4 and 6.         *)
(*                                                                         *)
(* Tables are the ones src/start.py creates: story_outline (150-172),      *)
(* drafts (224-238), finalized_scenes (269-280).                           *)
(***************************************************************************)
EXTENDS Integers, Sequences, FiniteSets, TLC

VARIABLES
    story_outline,      \* rows of story_outline, as <<act, scene>> keys (Intake
                        \* adds the rowid: <<act, scene, id>>)
    scene_title,        \* story_outline.scene_title of each row (NoText: null)
    tables,             \* names of the tables of the project database
    characters,         \* rows of characters, as names
    metadata,           \* rows of project_metadata, as a record
    intake,             \* position of each Intake client in its operation
    brainstorm_table,   \* local: name of the latest brainstorm table, or NoTable
    easter_egg,         \* writer.easter_egg, set from the brainstorm step
    brainstorm,         \* rows of that table, as <<act, scene, bucket>>
    finalized_scenes,   \* rows [act, scene, final_text]
    drafts,             \* rows [version, title, content, completion_status,
                        \* notes], in id order
    write_log,          \* WriteRunRecord rows [act, scene, prompt, output]
    pc,                 \* position of run_complete_pipeline
    run,                \* number of pipeline runs started on this project
    scenes_list,        \* local: scenes_list
    idx,                \* local: position of the for loop in scenes_list
    prev_text,          \* local: prev_text
    next_desc,          \* local: next_desc
    prompt,             \* local: prompt
    scene_text,         \* local: scene_text
    attempted,          \* scenes handed to generate_scene_text in this run
    manuscript,         \* the exported manuscript file: written or not, its blocks
    error,              \* the failure that left run_complete_pipeline
    failures,           \* failing calls so far (generation or persistence)
    cancelled,          \* the run that KeyboardInterrupt ended, if any
    txt_in,             \* text handed to summarize_prev_if_long
    txt_out,            \* <<result of the first pass, result of the second pass>>
    txt_step            \* passes of summarize_prev_if_long applied to txt_in

vars == <<story_outline, scene_title, tables, characters, metadata, intake,
          brainstorm_table, easter_egg, brainstorm, finalized_scenes, drafts,
          write_log, pc, run, scenes_list, idx, prev_text, next_desc, prompt,
          scene_text, attempted, manuscript, error, failures, cancelled,
          txt_in, txt_out, txt_step>>

store_vars == <<story_outline, scene_title, tables, brainstorm, characters,
                metadata, intake>>
writer_vars == <<brainstorm_table, easter_egg>>
text_vars  == <<txt_in, txt_out, txt_step>>

---------------------------------------------------------------------------
(* Bounds of the model *)

MaxAct      == 2    \* acts are 1..MaxAct
MaxScene    == 3    \* scene numbers are 1..MaxScene
MaxOutline  == 4    \* scenes in the outline of a pipeline run
MaxRuns     == 2    \* pipeline runs over one project
MaxFailures == 1    \* failing calls (generation, persistence) in a behaviour
TextSlack   == 3    \* text lengths range up to PREV_CAP + TextSlack
TitleLong   == 400  \* length of a long scene title
MaxVersion  == 10   \* brainstorm tables are numbered 1..MaxVersion
MaxIntake   == 3    \* (act, scene) keys the Intake clients work with
MaxDrafts   == 3    \* rows of drafts while drafts are edited by hand
MaxNotes    == 2    \* notes appended to drafts by hand

Acts   == 1..MaxAct
Scenes == 1..MaxScene
Keys   == Acts \X Scenes
Buckets == {"books"}

---------------------------------------------------------------------------
(* Outline order: act ascending, then scene ascending *)

Before(p, q) == p[1] < q[1] \/ (p[1] = q[1] /\ p[2] < q[2])

RECURSIVE OrderByActScene(_)
OrderByActScene(S) ==
    IF S = {} THEN <<>>
    ELSE LET m == CHOOSE x \in S : \A y \in S : y = x \/ Before(x, y)
         IN  <<m>> \o OrderByActScene(S \ {m})

get_story_outline(outline) == OrderByActScene(outline)

Prefix(s, n) == SubSeq(s, 1, n)
Range(s) == {s[i] : i \in 1..Len(s)}

---------------------------------------------------------------------------
(* Texts are sequences of symbols: characters, or a fixed string as one *)

NoText == <<>>
NoTable == <<>>
NoError == [raised |-> FALSE, missing |-> {}]

PREV_CAP == 2500

NO_PREVIOUS_SCENE == <<"(No previous scene available.)">>

ELLIPSIS == <<"...">>

summarize_prev_always_marks(text) ==
    IF text = NoText THEN NO_PREVIOUS_SCENE
    ELSE Prefix(text, IF Len(text) > PREV_CAP THEN PREV_CAP ELSE Len(text)) \o ELLIPSIS

summarize_prev_cap_exclusive(text) ==
    IF text = NoText THEN NO_PREVIOUS_SCENE
    ELSE IF Len(text) >= PREV_CAP THEN Prefix(text, PREV_CAP) \o ELLIPSIS
    ELSE text

summarize_prev_if_long(text) ==
    IF text = NoText THEN NO_PREVIOUS_SCENE
    ELSE IF Len(text) > PREV_CAP THEN Prefix(text, PREV_CAP) \o ELLIPSIS
    ELSE text

(* The output of one generate call: the real scene text or the error      *)
(* marker, for scene k in run r.                                           *)
GenKinds == {"scene", "[error]"}
GenText(kind, r, k) == <<kind, ToString(r), ToString(k[1]), ToString(k[2])>>

(* Non-empty descriptive fields of an outline row, one per line *)
synthesize_scene_context(k) == <<"Act", ToString(k[1]), "Scene", ToString(k[2])>>

---------------------------------------------------------------------------
(* Versioned table names: the prefix, "_v", and the decimal digits of N *)

BRAINSTORM_PREFIX == "brainstorm"

DigitChars == <<"0", "1", "2", "3", "4", "5", "6", "7", "8", "9">>

IsDigit(c) == \E d \in 1..10 : DigitChars[d] = c
DigitValue(c) == (CHOOSE d \in 1..10 : DigitChars[d] = c) - 1

RECURSIVE ToDigits(_)
ToDigits(n) ==
    IF n < 10 THEN <<DigitChars[n + 1]>>
    ELSE ToDigits(n \div 10) \o <<DigitChars[(n % 10) + 1]>>

RECURSIVE ParseInt(_)
ParseInt(ds) ==
    IF ds = <<>> THEN 0
    ELSE ParseInt(Prefix(ds, Len(ds) - 1)) * 10 + DigitValue(ds[Len(ds)])

TableName(prefix, n) == <<prefix, "_v">> \o ToDigits(n)

IsVersionOf(name, prefix) ==
    /\ Len(name) >= 3
    /\ name[1] = prefix
    /\ name[2] = "_v"
    /\ \A i \in 3..Len(name) : IsDigit(name[i])

TableVersion(name) == ParseInt(SubSeq(name, 3, Len(name)))

(* lexical order of two digit strings, as a string sort would give it *)
RECURSIVE LexLeq(_, _)
LexLeq(a, b) ==
    IF a = <<>> THEN TRUE
    ELSE IF b = <<>> THEN FALSE
    ELSE IF a[1] # b[1] THEN DigitValue(a[1]) < DigitValue(b[1])
    ELSE LexLeq(Tail(a), Tail(b))

get_latest_brainstorm_table_lexical(names) ==
    LET found == {t \in names : IsVersionOf(t, BRAINSTORM_PREFIX)}
    IN  IF found = {} THEN NoTable
        ELSE CHOOSE t \in found :
                 \A o \in found : LexLeq(SubSeq(o, 3, Len(o)), SubSeq(t, 3, Len(t)))

get_latest_brainstorm_table(names) ==
    LET found == {t \in names : IsVersionOf(t, BRAINSTORM_PREFIX)}
    IN  IF found = {} THEN NoTable
        ELSE CHOOSE t \in found :
                 \A o \in found : TableVersion(o) <= TableVersion(t)

---------------------------------------------------------------------------
(* Context assembly *)

FinalRows(fin, act, scene) == {r \in fin : r.act = act /\ r.scene = scene}
FinalRowsOfAct(fin, act)   == {r \in fin : r.act = act}

LastOfAct(fin, act) ==
    CHOOSE r \in FinalRowsOfAct(fin, act) :
        \A o \in FinalRowsOfAct(fin, act) : o.scene <= r.scene

get_prev_scene_text_first_of_act(fin, act, scene) ==
    IF FinalRows(fin, act, scene - 1) # {}
    THEN (CHOOSE r \in FinalRows(fin, act, scene - 1) : TRUE).final_text
    ELSE IF scene = 1 /\ act > 1 /\ FinalRowsOfAct(fin, act - 1) # {}
    THEN (CHOOSE r \in FinalRowsOfAct(fin, act - 1) :
             \A o \in FinalRowsOfAct(fin, act - 1) : r.scene <= o.scene).final_text
    ELSE NoText

get_prev_scene_text(fin, act, scene) ==
    IF FinalRows(fin, act, scene - 1) # {}
    THEN (CHOOSE r \in FinalRows(fin, act, scene - 1) : TRUE).final_text
    ELSE IF scene = 1 /\ act > 1 /\ FinalRowsOfAct(fin, act - 1) # {}
    THEN LastOfAct(fin, act - 1).final_text
    ELSE NoText

FirstOfAct(outline, act) ==
    CHOOSE k \in outline :
        k[1] = act /\ \A o \in outline : o[1] = act => k[2] <= o[2]

get_next_scene_outline_desc(outline, act, scene) ==
    IF <<act, scene + 1>> \in outline
    THEN synthesize_scene_context(<<act, scene + 1>>)
    ELSE IF \E k \in outline : k[1] = act + 1
    THEN synthesize_scene_context(FirstOfAct(outline, act + 1))
    ELSE NoText

MAX_SNAPSHOT_CHARS == 1200

CURRENT_MARK == ">>"
BLANK_MARK   == "  "
SNAPSHOT_TRUNCATED == <<"...">>

(* "<marker> Act {a}, Scene {s} - {title|Untitled}" and the line break *)
snapshot_line(k, title, current) ==
    <<IF k = current THEN CURRENT_MARK ELSE BLANK_MARK,
      " Act ", ToString(k[1]), ", Scene ", ToString(k[2]), " - ">>
    \o (IF title = NoText THEN <<"Untitled">> ELSE title)
    \o <<"\n">>

RECURSIVE JoinLines(_)
JoinLines(lines) ==
    IF lines = <<>> THEN <<>> ELSE Head(lines) \o JoinLines(Tail(lines))

make_outline_snapshot(scenes, titles, act, scene, max_chars) ==
    LET text == JoinLines([i \in 1..Len(scenes) |->
                    snapshot_line(scenes[i], titles[scenes[i]], <<act, scene>>)])
    IN  IF Len(text) > max_chars
        THEN Prefix(text, max_chars) \o SNAPSHOT_TRUNCATED
        ELSE text

get_brainstorm_for_scene(rows, act, scene) ==
    {r[3] : r \in {x \in rows : x[1] = act /\ x[2] = scene}}

(* what the driver sets on the writer before the loop *)
WRITING_STYLE == "cinematic"
TONE == "witty and heartfelt"
NoEasterEgg == ""
EasterEggChoices == {NoEasterEgg, "recurring joke about mismatched socks"}

(* the expertise framing of one bucket in the guidance section *)
bucket_framing(b) ==
    CASE b = "books"   -> "structure and pacing"
      [] b = "scripts" -> "romcom tropes"
      [] b = "plays"   -> "dramatic irony"
      [] OTHER         -> "creative insight"

FRAMED_BUCKETS == {"books", "scripts", "plays"}

build_scene_prompt_fixed_framings(meta, chars, k, bucket_context, snap, prev, next) ==
    [metadata   |-> meta,
     characters |-> chars,
     scene      |-> k,
     outline    |-> snap,
     buckets    |-> bucket_context,
     guidance   |-> {[bucket |-> b, framing |-> bucket_framing(b)] :
                        b \in FRAMED_BUCKETS \cup bucket_context},
     prev       |-> prev,
     next       |-> next,
     style      |-> WRITING_STYLE,
     tone       |-> TONE,
     easter_egg |-> easter_egg]

build_scene_prompt(meta, chars, k, bucket_context, snap, prev, next) ==
    [metadata   |-> meta,
     characters |-> chars,
     scene      |-> k,
     outline    |-> snap,
     buckets    |-> bucket_context,
     guidance   |-> {[bucket |-> b, framing |-> bucket_framing(b)] :
                        b \in bucket_context},
     prev       |-> prev,
     next       |-> next,
     style      |-> WRITING_STYLE,
     tone       |-> TONE,
     easter_egg |-> easter_egg]

NoPrompt == [metadata |-> <<>>, characters |-> {}, scene |-> <<0, 0>>,
             outline |-> NoText, buckets |-> {}, guidance |-> {},
             prev |-> NoText, next |-> NoText, style |-> "", tone |-> "",
             easter_egg |-> NoEasterEgg]

NotCancelled == [run |-> 0, passed |-> 0, finals |-> {}]

NoManuscript == [written |-> FALSE, blocks |-> <<>>]

---------------------------------------------------------------------------
(* Persistence *)

STYLE_NOTE == "Style"
MANUALLY_EDITED == "Manually edited"
COPIED_NOTE == "copied"
USER_NOTE == "note"

save_scene_draft(rows, k, content) ==
    Append(rows, [version |-> 1, title |-> k, content |-> content,
                  completion_status |-> "first_draft", notes |-> <<STYLE_NOTE>>])

save_finalized_scene(fin, k, text) ==
    (fin \ FinalRows(fin, k[1], k[2]))
        \cup {[act |-> k[1], scene |-> k[2], final_text |-> text]}

RECURSIVE OrderBySceneAct(_)
OrderBySceneAct(S) ==
    IF S = {} THEN <<>>
    ELSE LET m == CHOOSE x \in S :
                      \A y \in S : y = x \/ Before(<<x[2], x[1]>>, <<y[2], y[1]>>)
         IN  <<m>> \o OrderBySceneAct(S \ {m})

export_full_script_by_scene(fin) ==
    LET order == OrderBySceneAct({<<r.act, r.scene>> : r \in fin})
    IN  [i \in 1..Len(order) |->
            [scene |-> order[i],
             text  |-> (CHOOSE r \in FinalRows(fin, order[i][1], order[i][2]) : TRUE).final_text]]

export_full_script(fin) ==
    LET order == OrderByActScene({<<r.act, r.scene>> : r \in fin})
    IN  [i \in 1..Len(order) |->
            [scene |-> order[i],
             text  |-> (CHOOSE r \in FinalRows(fin, order[i][1], order[i][2]) : TRUE).final_text]]

---------------------------------------------------------------------------
(* The for loop of the driver *)

loop_next_halt_on_error(i, n) ==
    IF i > 0 /\ scene_text # NoText /\ scene_text[1] = "[error]" THEN "export"
    ELSE IF i < n THEN "context" ELSE "export"

loop_next(i, n) == IF i < n THEN "context" ELSE "export"

except_handler(i, n) == loop_next(i, n)

---------------------------------------------------------------------------
(* A project as Intake and Brainstorm leave it, with empty write tables *)

BrainstormRows(outline) ==
    {<<k[1], k[2], b>> : k \in outline, b \in Buckets}

(* brainstorm rows for no scene, for the first scene only, and for every *)
(* scene of the outline                                                 *)
BrainstormChoices(outline) ==
    {BrainstormRows(Range(Prefix(OrderByActScene(outline), n))) :
        n \in {0, 1, Cardinality(outline)} \cap (0..Cardinality(outline))}

OutlineChoices ==
    {o \in {Range(Prefix(OrderByActScene(Keys), n)) : n \in 0..Cardinality(Keys)}
            \cup {(1..a) \X (1..s) : a \in Acts, s \in Scenes} :
        Cardinality(o) <= MaxOutline}

(* the rows Intake has left in characters and project_metadata, and no    *)
(* Intake operation in progress                                            *)
IntakeClients == {"cli", "api"}
IdleIntake ==
    [c \in IntakeClients |->
        [at |-> "idle", op |-> "none", key |-> <<0, 0>>, last |-> "none"]]

IdleStore ==
    /\ characters = {"protagonist", "love_interest"}
    /\ metadata = [pov |-> "third-person limited", tense |-> "past"]
    /\ intake = IdleIntake

IdleLocals ==
    /\ brainstorm_table = NoTable
    /\ easter_egg = NoEasterEgg
    /\ cancelled = NotCancelled
    /\ pc = "idle"
    /\ run = 0
    /\ scenes_list = <<>>
    /\ idx = 0
    /\ prev_text = NoText
    /\ next_desc = NoText
    /\ prompt = NoPrompt
    /\ scene_text = NoText
    /\ attempted = <<>>
    /\ manuscript = NoManuscript
    /\ error = NoError
    /\ failures = 0

IdleText ==
    /\ txt_in = NoText
    /\ txt_out = <<>>
    /\ txt_step = 0

Init ==
    /\ IdleStore
    /\ story_outline \in OutlineChoices
    /\ scene_title = [k \in story_outline |-> NoText]
    /\ \/ tables = {} /\ brainstorm = {}
       \/ tables = {TableName(BRAINSTORM_PREFIX, 1)}
          /\ brainstorm \in BrainstormChoices(story_outline)
    /\ finalized_scenes = {}
    /\ drafts = <<>>
    /\ write_log = <<>>
    /\ IdleLocals
    /\ IdleText

---------------------------------------------------------------------------
(* run_complete_pipeline, steps 5 and 6 *)

StartRun ==
    /\ pc = "idle"
    /\ run < MaxRuns
    /\ run' = run + 1
    /\ scenes_list' = get_story_outline(story_outline)
    /\ idx' = 1
    /\ attempted' = <<>>
    /\ brainstorm_table' = get_latest_brainstorm_table(tables)
    /\ easter_egg' \in EasterEggChoices
    /\ pc' = loop_next(0, Len(scenes_list'))
    /\ UNCHANGED <<store_vars, finalized_scenes, drafts, write_log, prev_text,
                   next_desc, prompt, scene_text, manuscript, error, failures,
                   cancelled, text_vars>>

(* an assembler that deletes the brainstorm rows it has read *)
AssembleContext_consumes_brainstorm ==
    /\ pc = "context"
    /\ LET k  == scenes_list[idx]
           pt == summarize_prev_if_long(
                     get_prev_scene_text(finalized_scenes, k[1], k[2]))
           os == make_outline_snapshot(scenes_list, scene_title, k[1], k[2],
                                       MAX_SNAPSHOT_CHARS)
           nd == get_next_scene_outline_desc(story_outline, k[1], k[2])
           bc == IF brainstorm_table # NoTable
                 THEN get_brainstorm_for_scene(brainstorm, k[1], k[2])
                 ELSE {}
       IN  /\ prev_text' = pt
           /\ next_desc' = nd
           /\ prompt' = build_scene_prompt(metadata, characters, k, bc, os, pt, nd)
           /\ brainstorm' = {r \in brainstorm : <<r[1], r[2]>> # k}
    /\ pc' = "generate"
    /\ UNCHANGED <<story_outline, scene_title, tables, characters, metadata,
                   intake, writer_vars, cancelled, finalized_scenes, drafts, write_log, run,
                   scenes_list, idx, scene_text, attempted, manuscript, error,
                   failures, text_vars>>

AssembleContext ==
    /\ pc = "context"
    /\ LET k  == scenes_list[idx]
           pt == summarize_prev_if_long(
                     get_prev_scene_text(finalized_scenes, k[1], k[2]))
           os == make_outline_snapshot(scenes_list, scene_title, k[1], k[2],
                                       MAX_SNAPSHOT_CHARS)
           nd == get_next_scene_outline_desc(story_outline, k[1], k[2])
           bc == IF brainstorm_table # NoTable
                 THEN get_brainstorm_for_scene(brainstorm, k[1], k[2])
                 ELSE {}
       IN  /\ prev_text' = pt
           /\ next_desc' = nd
           /\ prompt' = build_scene_prompt(metadata, characters, k, bc, os, pt, nd)
    /\ pc' = "generate"
    /\ UNCHANGED <<store_vars, writer_vars, cancelled, finalized_scenes, drafts, write_log, run,
                   scenes_list, idx, scene_text, attempted, manuscript, error,
                   failures, text_vars>>

GenerateSceneText ==
    /\ pc = "generate"
    /\ \E kind \in GenKinds :
          /\ kind = "[error]" => failures < MaxFailures
          /\ failures' = IF kind = "[error]" THEN failures + 1 ELSE failures
          /\ scene_text' = GenText(kind, run, scenes_list[idx])
    /\ attempted' = Append(attempted, scenes_list[idx])
    /\ pc' = "save_draft"
    /\ UNCHANGED <<store_vars, writer_vars, cancelled, finalized_scenes, drafts, write_log, run,
                   scenes_list, idx, prev_text, next_desc, prompt, manuscript,
                   error, text_vars>>

SaveSceneDraft ==
    /\ pc = "save_draft"
    /\ \E raises \in BOOLEAN :
          IF raises
          THEN /\ failures < MaxFailures
               /\ failures' = failures + 1
               /\ drafts' = drafts
               /\ pc' = except_handler(idx, Len(scenes_list))
               /\ idx' = idx + 1
          ELSE /\ failures' = failures
               /\ drafts' = save_scene_draft(drafts, scenes_list[idx], scene_text)
               /\ pc' = "save_final"
               /\ idx' = idx
    /\ UNCHANGED <<store_vars, writer_vars, cancelled, finalized_scenes, write_log, run, scenes_list,
                   prev_text, next_desc, prompt, scene_text, attempted,
                   manuscript, error, text_vars>>

SaveFinalizedScene ==
    /\ pc = "save_final"
    /\ \E raises \in BOOLEAN :
          IF raises
          THEN /\ failures < MaxFailures
               /\ failures' = failures + 1
               /\ finalized_scenes' = finalized_scenes
               /\ pc' = except_handler(idx, Len(scenes_list))
          ELSE /\ failures' = failures
               /\ finalized_scenes' =
                      save_finalized_scene(finalized_scenes, scenes_list[idx], scene_text)
               /\ pc' = loop_next(idx, Len(scenes_list))
    /\ idx' = idx + 1
    /\ UNCHANGED <<store_vars, writer_vars, cancelled, drafts, write_log, run, scenes_list, prev_text,
                   next_desc, prompt, scene_text, attempted, manuscript, error,
                   text_vars>>

ExportFullScript_writes_empty ==
    /\ pc = "export"
    /\ manuscript' = [written |-> TRUE,
                      blocks  |-> export_full_script(finalized_scenes)]
    /\ pc' = "done"
    /\ UNCHANGED <<store_vars, writer_vars, cancelled, finalized_scenes, drafts,
                   write_log, run, scenes_list, idx, prev_text, next_desc,
                   prompt, scene_text, attempted, error, failures, text_vars>>

ExportFullScript ==
    /\ pc = "export"
    /\ manuscript' = IF finalized_scenes = {} THEN manuscript
                     ELSE [written |-> TRUE,
                           blocks  |-> export_full_script(finalized_scenes)]
    /\ pc' = "done"
    /\ UNCHANGED <<store_vars, writer_vars, cancelled, finalized_scenes, drafts, write_log, run,
                   scenes_list, idx, prev_text, next_desc, prompt, scene_text,
                   attempted, error, failures, text_vars>>

Return ==
    /\ pc = "done"
    /\ pc' = "idle"
    /\ UNCHANGED <<store_vars, writer_vars, cancelled, finalized_scenes, drafts, write_log, run,
                   scenes_list, idx, prev_text, next_desc, prompt, scene_text,
                   attempted, manuscript, error, failures, text_vars>>

Next ==
    \/ StartRun
    \/ AssembleContext
    \/ GenerateSceneText
    \/ SaveSceneDraft
    \/ SaveFinalizedScene
    \/ ExportFullScript
    \/ Return

Spec == Init /\ [][Next]_vars

---------------------------------------------------------------------------
(* Intake: the operations that add rows to story_outline. The CLI and the  *)
(* API work on the same database through connections of their own, so the  *)
(* SELECT that looks for the scene and the INSERT that follows it are       *)
(* separate steps of each client.                                          *)

IntakeKeys == Range(Prefix(OrderByActScene(Keys), MaxIntake))

IntakeOps(c) ==
    IF c = "cli" THEN {"add_scene", "scene_full_form", "quick_three_act_setup"}
    ELSE {"add_scene"}

THREE_ACT_STRUCTURE ==
    << <<1, 1>>, <<1, 2>>, <<1, 3>>, <<2, 1>>, <<2, 2>>, <<2, 3>>, <<2, 4>>,
       <<3, 1>>, <<3, 2>>, <<3, 3>> >>

IsIntakeKey(k) == k \in IntakeKeys

QuickScenes == SelectSeq(THREE_ACT_STRUCTURE, IsIntakeKey)

RowsOfKey(rows, k) == {r \in rows : r[1] = k[1] /\ r[2] = k[2]}

NextRowId(rows) ==
    IF rows = {} THEN 1
    ELSE (CHOOSE r \in rows : \A o \in rows : o[3] <= r[3])[3] + 1

(* INSERT without the table's UNIQUE(act, scene) *)
insert_scene_no_unique(rows, k) ==
    rows \cup {<<k[1], k[2], NextRowId(rows)>>}

(* INSERT INTO story_outline: UNIQUE(act, scene) makes the statement raise *)
(* IntegrityError and leave the table as it was                            *)
insert_scene(rows, k) ==
    IF RowsOfKey(rows, k) # {} THEN rows
    ELSE rows \cup {<<k[1], k[2], NextRowId(rows)>>}

NEW_TITLE == <<"new">>
EDITED_TITLE == <<"edited">>

(* where a client goes after scene k of its operation is dealt with *)
after_scene(c, k, result) ==
    IF intake[c].op = "quick_three_act_setup"
          /\ \E i \in 1..(Len(QuickScenes) - 1) : QuickScenes[i] = k
    THEN [at |-> "check", op |-> intake[c].op,
          key |-> QuickScenes[(CHOOSE i \in 1..Len(QuickScenes) :
                                   QuickScenes[i] = k) + 1],
          last |-> result]
    ELSE [at |-> "idle", op |-> intake[c].op, key |-> k, last |-> result]

BeginIntake(c) ==
    /\ intake[c].at = "idle"
    /\ Cardinality(story_outline) <= MaxIntake
    /\ \E o \in IntakeOps(c) :
          \E k \in IF o = "quick_three_act_setup" THEN {QuickScenes[1]}
                    ELSE IntakeKeys :
              intake' = [intake EXCEPT
                            ![c] = [at |-> "check", op |-> o, key |-> k,
                                    last |-> "none"]]
    /\ UNCHANGED <<story_outline, scene_title, tables, brainstorm, characters,
                   metadata, writer_vars, cancelled, finalized_scenes, drafts,
                   write_log, pc, run, scenes_list, idx, prev_text, next_desc,
                   prompt, scene_text, attempted, manuscript, error, failures,
                   text_vars>>

(* SELECT * FROM story_outline WHERE act = ? AND scene = ? *)
CheckScene(c) ==
    /\ intake[c].at = "check"
    /\ LET k == intake[c].key
           exists == RowsOfKey(story_outline, k) # {}
       IN  intake' = [intake EXCEPT
               ![c] = IF ~exists THEN [intake[c] EXCEPT !.at = "insert"]
                      ELSE IF intake[c].op = "scene_full_form"
                           THEN [intake[c] EXCEPT !.at = "update"]
                      ELSE IF intake[c].op = "quick_three_act_setup"
                           THEN after_scene(c, k, "skipped")
                      ELSE after_scene(c, k, "exists")]
    /\ UNCHANGED <<story_outline, scene_title, tables, brainstorm, characters,
                   metadata, writer_vars, cancelled, finalized_scenes, drafts,
                   write_log, pc, run, scenes_list, idx, prev_text, next_desc,
                   prompt, scene_text, attempted, manuscript, error, failures,
                   text_vars>>

InsertScene(c) ==
    /\ intake[c].at = "insert"
    /\ LET k == intake[c].key
       IN  /\ story_outline' = insert_scene(story_outline, k)
           /\ scene_title' =
                  [r \in story_outline' |->
                      IF r \in story_outline THEN scene_title[r] ELSE NEW_TITLE]
           /\ intake' = [intake EXCEPT
                  ![c] = IF story_outline' = story_outline
                         THEN [at |-> "idle", op |-> intake[c].op, key |-> k,
                               last |-> "integrity_error"]
                         ELSE after_scene(c, k, "added")]
    /\ UNCHANGED <<tables, brainstorm, characters, metadata, writer_vars,
                   cancelled, finalized_scenes, drafts, write_log, pc, run,
                   scenes_list, idx, prev_text, next_desc, prompt, scene_text,
                   attempted, manuscript, error, failures, text_vars>>

(* scene_full_form on an existing scene: UPDATE ... WHERE act = ? AND      *)
(* scene = ?, when a field was filled in                                   *)
UpdateScene(c) ==
    /\ intake[c].at = "update"
    /\ LET k == intake[c].key
       IN  \E filled \in BOOLEAN :
               /\ scene_title' =
                      IF filled
                      THEN [r \in story_outline |->
                              IF r \in RowsOfKey(story_outline, k)
                              THEN EDITED_TITLE ELSE scene_title[r]]
                      ELSE scene_title
               /\ intake' = [intake EXCEPT
                      ![c] = after_scene(c, k, IF filled THEN "updated"
                                               ELSE "no_changes")]
    /\ UNCHANGED <<story_outline, tables, brainstorm, characters, metadata,
                   writer_vars, cancelled, finalized_scenes, drafts, write_log,
                   pc, run, scenes_list, idx, prev_text, next_desc, prompt,
                   scene_text, attempted, manuscript, error, failures,
                   text_vars>>

InitOutline ==
    /\ story_outline \in {{}, {<<1, 1, 1>>}}
    /\ scene_title = [r \in story_outline |-> NoText]
    /\ tables = {}
    /\ brainstorm = {}
    /\ IdleStore
    /\ finalized_scenes = {}
    /\ drafts = <<>>
    /\ write_log = <<>>
    /\ IdleLocals
    /\ IdleText

NextOutline ==
    \E c \in IntakeClients :
        \/ BeginIntake(c)
        \/ CheckScene(c)
        \/ InsertScene(c)
        \/ UpdateScene(c)

SpecOutline == InitOutline /\ [][NextOutline]_vars

---------------------------------------------------------------------------
(* Editing drafts by hand: write a scene, then edit_existing_draft on a    *)
(* draft picked from the list, with its four choices.                      *)

DraftTitles == {<<1, 1>>, <<1, 2>>}

RECURSIVE NotesAdded(_)
NotesAdded(rows) ==
    IF rows = <<>> THEN 0
    ELSE (Len(rows[1].notes) - 1) + NotesAdded(Tail(rows))

EDITED_CONTENT == <<"edited">>

STATUSES == {"outline", "first_draft", "revision", "final"}

(* UPDATE drafts SET content = ?, notes = notes || ?                       *)
(* WHERE id = (SELECT MAX(id) FROM drafts)                                 *)
manual_edit_session(rows, edited_content) ==
    [rows EXCEPT ![Len(rows)] =
        [@ EXCEPT !.content = edited_content,
                  !.notes = Append(@, MANUALLY_EDITED)]]

change_draft_status(rows, draft_id, new_status) ==
    [rows EXCEPT ![draft_id] = [@ EXCEPT !.completion_status = new_status]]

add_draft_notes(rows, draft_id) ==
    [rows EXCEPT ![draft_id] = [@ EXCEPT !.notes = Append(@, USER_NOTE)]]

MaxVersionOfTitle(rows, title) ==
    LET vs == {rows[i].version : i \in {j \in 1..Len(rows) : rows[j].title = title}}
    IN  IF vs = {} THEN 0 ELSE CHOOSE v \in vs : \A w \in vs : w <= v

(* a new version numbered after the draft it copies *)
create_new_version_after_original(rows, draft_id) ==
    Append(rows, [version |-> rows[draft_id].version + 1,
                  title |-> rows[draft_id].title,
                  content |-> rows[draft_id].content,
                  completion_status |-> "revision",
                  notes |-> <<COPIED_NOTE>>])

create_new_version(rows, draft_id) ==
    Append(rows, [version |-> MaxVersionOfTitle(rows, rows[draft_id].title) + 1,
                  title |-> rows[draft_id].title,
                  content |-> rows[draft_id].content,
                  completion_status |-> "revision",
                  notes |-> <<COPIED_NOTE>>])

drafts_frame ==
    UNCHANGED <<store_vars, writer_vars, cancelled, finalized_scenes, write_log,
                pc, run, scenes_list, idx, prev_text, next_desc, prompt,
                scene_text, attempted, manuscript, error, failures, text_vars>>

(* write_outlined_scene: a scene written and saved from the menu *)
WriteScene(k) ==
    /\ Len(drafts) < MaxDrafts
    /\ drafts' = save_scene_draft(drafts, k, GenText("scene", 1, k))
    /\ drafts_frame

(* edit_existing_draft, choice 1 *)
EditContent(d) ==
    /\ NotesAdded(drafts) < MaxNotes
    /\ \E edited \in {drafts[d].content, EDITED_CONTENT} :
          drafts' = manual_edit_session(drafts, edited)
    /\ drafts_frame

(* edit_existing_draft, choice 2 *)
ChangeStatus(d) ==
    /\ \E st \in STATUSES : drafts' = change_draft_status(drafts, d, st)
    /\ drafts_frame

(* edit_existing_draft, choice 3 *)
AddNotes(d) ==
    /\ NotesAdded(drafts) < MaxNotes
    /\ drafts' = add_draft_notes(drafts, d)
    /\ drafts_frame

(* edit_existing_draft, choice 4 *)
CreateNewVersion(d) ==
    /\ Len(drafts) < MaxDrafts
    /\ drafts' = create_new_version(drafts, d)
    /\ drafts_frame

InitDrafts ==
    /\ story_outline = DraftTitles
    /\ scene_title = [k \in story_outline |-> NoText]
    /\ tables = {}
    /\ brainstorm = {}
    /\ IdleStore
    /\ finalized_scenes = {}
    /\ drafts = <<>>
    /\ write_log = <<>>
    /\ IdleLocals
    /\ IdleText

NextDrafts ==
    \/ \E k \in DraftTitles : WriteScene(k)
    \/ \E d \in 1..Len(drafts) :
          \/ EditContent(d)
          \/ ChangeStatus(d)
          \/ AddNotes(d)
          \/ CreateNewVersion(d)

SpecDrafts == InitDrafts /\ [][NextDrafts]_vars

(* the operations that write the version, title and content of a draft *)
NextVersions ==
    \/ \E k \in DraftTitles : WriteScene(k)
    \/ \E d \in 1..Len(drafts) :
          \/ EditContent(d)
          \/ CreateNewVersion(d)

SpecVersions == InitDrafts /\ [][NextVersions]_vars

---------------------------------------------------------------------------
(* The pipeline with the user's Ctrl-C: main() catches KeyboardInterrupt   *)
(* raised anywhere in the scene loop and the process ends; the rows        *)
(* committed so far stay in the database and the pipeline can be run again. *)

KeyboardInterrupt ==
    /\ pc \in {"context", "generate", "save_draft", "save_final"}
    /\ cancelled' = [run |-> run, passed |-> idx - 1, finals |-> finalized_scenes]
    /\ pc' = "idle"
    /\ UNCHANGED <<store_vars, writer_vars, finalized_scenes, drafts, write_log,
                   run, scenes_list, idx, prev_text, next_desc, prompt,
                   scene_text, attempted, manuscript, error, failures,
                   text_vars>>

NextResume ==
    \/ Next
    \/ KeyboardInterrupt

SpecResume == Init /\ [][NextResume]_vars

---------------------------------------------------------------------------
(* Context assembly on its own: any outline of at most MaxOutline scenes,  *)
(* finalized rows for any of its scenes, any scene as the current one.     *)

FinalRowsFor(F) ==
    {[act |-> k[1], scene |-> k[2], final_text |-> GenText("scene", 1, k)] : k \in F}

InitContext ==
    /\ story_outline \in {o \in SUBSET Keys : o # {} /\ Cardinality(o) <= MaxOutline}
    /\ scene_title = [k \in story_outline |-> NoText]
    /\ tables = {}
    /\ brainstorm_table = NoTable
    /\ easter_egg = NoEasterEgg
    /\ cancelled = NotCancelled
    /\ IdleStore
    /\ brainstorm = {}
    /\ finalized_scenes \in {FinalRowsFor(F) : F \in SUBSET story_outline}
    /\ drafts = <<>>
    /\ write_log = <<>>
    /\ pc = "context"
    /\ run = 1
    /\ scenes_list = get_story_outline(story_outline)
    /\ idx \in 1..Cardinality(story_outline)
    /\ prev_text = NoText
    /\ next_desc = NoText
    /\ prompt = NoPrompt
    /\ scene_text = NoText
    /\ attempted = <<>>
    /\ manuscript = NoManuscript
    /\ error = NoError
    /\ failures = 0
    /\ IdleText

SpecContext == InitContext /\ [][AssembleContext]_vars

---------------------------------------------------------------------------
(* summarize_prev_if_long on its own: texts of every length near 0 and     *)
(* near the cap, applied once and then to its own result.                  *)

TextLengths ==
    (0..TextSlack) \cup ((PREV_CAP - TextSlack)..(PREV_CAP + TextSlack))

TextPatterns == {<<"a", "a">>, <<".", ".">>, <<" ", " ">>, <<"a", ".">>, <<"a", " ">>}

MakeText(n, pat) == [i \in 1..n |-> pat[1 + (i % 2)]]

InitText ==
    /\ IdleStore
    /\ story_outline = {}
    /\ scene_title = <<>>
    /\ tables = {}
    /\ brainstorm = {}
    /\ finalized_scenes = {}
    /\ drafts = <<>>
    /\ write_log = <<>>
    /\ IdleLocals
    /\ txt_in \in {MakeText(n, pat) : n \in TextLengths, pat \in TextPatterns}
    /\ txt_out = <<>>
    /\ txt_step = 0

Summarize ==
    /\ txt_step = 0
    /\ txt_out' = <<summarize_prev_if_long(txt_in)>>
    /\ txt_step' = 1
    /\ UNCHANGED <<store_vars, writer_vars, cancelled, finalized_scenes, drafts, write_log, pc, run,
                   scenes_list, idx, prev_text, next_desc, prompt, scene_text,
                   attempted, manuscript, error, failures, txt_in>>

SummarizeAgain ==
    /\ txt_step = 1
    /\ txt_out' = Append(txt_out, summarize_prev_if_long(txt_out[1]))
    /\ txt_step' = 2
    /\ UNCHANGED <<store_vars, writer_vars, cancelled, finalized_scenes, drafts, write_log, pc, run,
                   scenes_list, idx, prev_text, next_desc, prompt, scene_text,
                   attempted, manuscript, error, failures, txt_in>>

NextText == Summarize \/ SummarizeAgain

SpecText == InitText /\ [][NextText]_vars

---------------------------------------------------------------------------
(* The outline snapshot on its own: any outline of at most MaxOutline      *)
(* scenes, titles that are null, short or long, any scene as the current   *)
(* one.                                                                    *)

TitleChoices == {NoText, MakeText(2, <<"a", "a">>), MakeText(TitleLong, <<"a", "a">>)}

InitSnapshot ==
    /\ story_outline \in {o \in SUBSET Keys : o # {} /\ Cardinality(o) <= MaxOutline}
    /\ \E t \in TitleChoices : scene_title = [k \in story_outline |-> t]
    /\ tables = {}
    /\ brainstorm_table = NoTable
    /\ easter_egg = NoEasterEgg
    /\ cancelled = NotCancelled
    /\ IdleStore
    /\ brainstorm = {}
    /\ finalized_scenes = {}
    /\ drafts = <<>>
    /\ write_log = <<>>
    /\ pc = "context"
    /\ run = 1
    /\ scenes_list = get_story_outline(story_outline)
    /\ idx \in 1..Cardinality(story_outline)
    /\ prev_text = NoText
    /\ next_desc = NoText
    /\ prompt = NoPrompt
    /\ scene_text = NoText
    /\ attempted = <<>>
    /\ manuscript = NoManuscript
    /\ error = NoError
    /\ failures = 0
    /\ IdleText

SpecSnapshot == InitSnapshot /\ [][AssembleContext]_vars

---------------------------------------------------------------------------
(* Table resolution on its own: a database with any set of brainstorm      *)
(* tables numbered 1..MaxVersion, a table without a version suffix and a   *)
(* higher-numbered table of another prefix; the run resolves the latest.   *)

TableNameChoices ==
    {TableName(BRAINSTORM_PREFIX, n) : n \in 1..MaxVersion}
        \cup {<<"characters">>, TableName("write", MaxVersion + 1)}

InitTables ==
    /\ IdleStore
    /\ story_outline = {}
    /\ scene_title = <<>>
    /\ tables \in SUBSET TableNameChoices
    /\ brainstorm = {}
    /\ finalized_scenes = {}
    /\ drafts = <<>>
    /\ write_log = <<>>
    /\ IdleLocals
    /\ IdleText

SpecTables == InitTables /\ [][StartRun]_vars

---------------------------------------------------------------------------
(* The prompt builder on its own: a brainstorm table, or none, with rows   *)
(* of any buckets for the current scene and for the first scene.           *)

PromptBuckets == {"books", "scripts", "plays", "films"}

BucketRows(k, bs) == {<<k[1], k[2], b>> : b \in bs}

InitPrompt ==
    /\ story_outline \in OutlineChoices \ {{}}
    /\ scene_title = [k \in story_outline |-> NoText]
    /\ tables \in {{}, {TableName(BRAINSTORM_PREFIX, 1)}}
    /\ brainstorm_table = get_latest_brainstorm_table(tables)
    /\ easter_egg \in EasterEggChoices
    /\ cancelled = NotCancelled
    /\ IdleStore
    /\ finalized_scenes = {}
    /\ drafts = <<>>
    /\ write_log = <<>>
    /\ pc = "context"
    /\ run = 1
    /\ scenes_list = get_story_outline(story_outline)
    /\ idx \in 1..Cardinality(story_outline)
    /\ IF tables = {} THEN brainstorm = {}
       ELSE \E cur, first \in SUBSET PromptBuckets :
                brainstorm = BucketRows(scenes_list[idx], cur)
                                 \cup BucketRows(scenes_list[1], first)
    /\ prev_text = NoText
    /\ next_desc = NoText
    /\ prompt = NoPrompt
    /\ scene_text = NoText
    /\ attempted = <<>>
    /\ manuscript = NoManuscript
    /\ error = NoError
    /\ failures = 0
    /\ IdleText

SpecPrompt == InitPrompt /\ [][AssembleContext]_vars

---------------------------------------------------------------------------
(* Properties *)

InLoop == pc \in {"context", "generate", "save_draft", "save_final"}

ThisRunTexts(k) == {GenText(kind, run, k) : kind \in GenKinds}

FinalOf(k) == FinalRows(finalized_scenes, k[1], k[2])

(* the finalized row of k was written by the current run *)
FinalWrittenThisRun(k) == \E r \in FinalOf(k) : r.final_text \in ThisRunTexts(k)

DraftWrittenThisRun(k) ==
    \E i \in 1..Len(drafts) : drafts[i].title = k /\ drafts[i].content \in ThisRunTexts(k)

RunLoggedThisRun(k) ==
    \E i \in 1..Len(write_log) :
        /\ write_log[i].act = k[1] /\ write_log[i].scene = k[2]
        /\ write_log[i].output \in ThisRunTexts(k)

(* the driver has moved past position j of scenes_list in the current run *)
Passed(j) == (InLoop /\ j < idx) \/ pc \in {"export", "done"}

Uncovered ==
    {k \in story_outline : get_brainstorm_for_scene(brainstorm, k[1], k[2]) = {}}

(* C1: while the driver assembles context or generates for the scene at    *)
(* position idx, the FinalizedScene write of every earlier outline scene   *)
(* has completed in this run.                                              *)
C1_GenerationAfterPriorFinal ==
    pc \in {"context", "generate"} =>
        \A j \in 1..(idx - 1) : FinalWrittenThisRun(scenes_list[j])

(* C2: with an outline scene that has no BrainstormEntry, the run makes no *)
(* generation call and writes no run-log, draft or finalized row, and it   *)
(* ends with the aggregated failure raised.                                *)
C2_UncoveredRunAborts ==
    Uncovered # {} =>
        /\ attempted = <<>>
        /\ write_log = <<>> /\ drafts = <<>> /\ finalized_scenes = {}
        /\ pc = "done" => error.raised

(* C3: a run over an outline with uncovered scenes ends with one error     *)
(* that names exactly the uncovered scenes.                                *)
C3_ErrorNamesUncovered ==
    (pc = "done" /\ Uncovered # {}) => (error.raised /\ error.missing = Uncovered)

C5_LogDraftFinalForEveryScene ==
    /\ \A j \in 1..Len(scenes_list) :
          Passed(j) =>
              /\ RunLoggedThisRun(scenes_list[j])
              /\ DraftWrittenThisRun(scenes_list[j])
              /\ FinalWrittenThisRun(scenes_list[j])
    /\ pc = "save_final" =>
          /\ RunLoggedThisRun(scenes_list[idx])
          /\ DraftWrittenThisRun(scenes_list[idx])

(* C6: at the end of every pipeline run FinalizedScene holds exactly one   *)
(* row per outline scene, and its text is the output generated for that    *)
(* scene in this run.                                                      *)
C6_OneLatestFinalPerScene ==
    pc = "done" =>
        \A k \in story_outline :
            Cardinality(FinalOf(k)) = 1 /\ FinalWrittenThisRun(k)

(* C7: for scene 1 of an act a > 1, when act a-1 has a finalized scene,    *)
(* the previous-scene text is the finalized text of the scene with the     *)
(* highest scene number in act a-1, and it is not empty.                   *)
C7_PrevAcrossActBoundary ==
    (/\ pc = "generate"
     /\ scenes_list[idx][2] = 1
     /\ scenes_list[idx][1] > 1
     /\ \E r \in finalized_scenes : r.act = scenes_list[idx][1] - 1)
    => /\ \E r \in finalized_scenes :
            /\ r.act = scenes_list[idx][1] - 1
            /\ \A o \in finalized_scenes : o.act = r.act => o.scene <= r.scene
            /\ prev_text = r.final_text
       /\ prev_text # NoText
       /\ prev_text # NO_PREVIOUS_SCENE

(* C7 witness: context has been assembled for scene (2,1) while act 1 has  *)
(* at least two finalized scenes.                                          *)
C7_Witness ==
    /\ pc = "generate"
    /\ scenes_list[idx] = <<2, 1>>
    /\ Cardinality({r \in finalized_scenes : r.act = 1}) >= 2
    /\ prev_text # NO_PREVIOUS_SCENE

(* C8: for every outline scene but the first, when its predecessor in      *)
(* outline order has a finalized row, the previous-scene text assembled    *)
(* for it is that row's text.                                              *)
C8_PrevIsOutlinePredecessor ==
    (/\ pc = "generate"
     /\ idx > 1
     /\ FinalOf(scenes_list[idx - 1]) # {})
    => \E r \in FinalOf(scenes_list[idx - 1]) : prev_text = r.final_text

(* C9: for every outline scene but the last, the next-scene description    *)
(* assembled for it describes its immediate successor in outline order;    *)
(* for the last scene it is empty.                                         *)
C9_NextIsOutlineSuccessor ==
    pc = "generate" =>
        next_desc = IF idx < Len(scenes_list)
                    THEN synthesize_scene_context(scenes_list[idx + 1])
                    ELSE NoText

(* C10: summarize_prev_if_long applied to its own result returns that      *)
(* result, for empty texts, texts under the cap and texts over the cap.    *)
C10_SummarizeIdempotent ==
    txt_step = 2 => txt_out[2] = txt_out[1]

(* C10 witness: a text longer than the cap has been summarized twice, and  *)
(* the first pass truncated it.                                            *)
C10_Witness ==
    /\ txt_step = 2
    /\ Len(txt_in) > PREV_CAP
    /\ txt_out[1] # txt_in
    /\ Len(txt_out[1]) = PREV_CAP + Len(ELLIPSIS)

(* C11: the bounding function returns the placeholder for the empty text,  *)
(* the text itself when it has at most 2500 characters, and otherwise its  *)
(* first 2500 characters followed by the ellipsis marker; the result is    *)
(* never empty and never longer than 2500 characters plus the marker.      *)
C11_PrevTextBounded ==
    txt_step >= 1 =>
        /\ txt_in = NoText => txt_out[1] = NO_PREVIOUS_SCENE
        /\ (txt_in # NoText /\ Len(txt_in) <= 2500) => txt_out[1] = txt_in
        /\ Len(txt_in) > 2500 =>
              /\ Len(txt_out[1]) = 2500 + Len(ELLIPSIS)
              /\ \A i \in 1..2500 : txt_out[1][i] = txt_in[i]
              /\ SubSeq(txt_out[1], 2501, Len(txt_out[1])) = ELLIPSIS
        /\ txt_out[1] # NoText
        /\ Len(txt_out[1]) <= 2500 + Len(ELLIPSIS)

(* C11 witness: a text of exactly 2500 characters came back unchanged.     *)
C11_Witness ==
    /\ txt_step = 1
    /\ Len(txt_in) = 2500
    /\ txt_out[1] = txt_in

(* positions of the snapshot at which a line starts *)
LineStarts(snap) == {i \in 1..Len(snap) : snap[i] \in {CURRENT_MARK, BLANK_MARK}}

(* C12: the lines of the snapshot built for the current scene are lines of *)
(* the outline scenes in (act, scene) order, one per scene; exactly one    *)
(* line carries the ">>" mark and it is the line of the current scene, for *)
(* every current scene of the outline; and the snapshot is no longer than  *)
(* maxChars plus the truncation marker.                                    *)
C12_SnapshotMarksCurrent ==
    pc = "generate" =>
        LET snap == prompt.outline
            rank(i) == Cardinality({x \in LineStarts(snap) : x <= i})
        IN  /\ \A i \in LineStarts(snap) :
                  /\ rank(i) <= Len(scenes_list)
                  /\ i + 4 <= Len(snap) =>
                        /\ snap[i + 2] = ToString(scenes_list[rank(i)][1])
                        /\ snap[i + 4] = ToString(scenes_list[rank(i)][2])
            /\ \E i \in LineStarts(snap) :
                  /\ snap[i] = CURRENT_MARK
                  /\ rank(i) = idx
                  /\ \A o \in LineStarts(snap) : snap[o] = CURRENT_MARK => o = i
            /\ Len(snap) <= MAX_SNAPSHOT_CHARS + Len(SNAPSHOT_TRUNCATED)

(* the outline is not empty and every scene has a brainstorm row *)
CoveredRun == story_outline # {} /\ Uncovered = {}

(* C13: a failure is never raised after a scene was generated; in a run    *)
(* over a non-empty, fully covered outline the Exporter is reached only    *)
(* when every scene has been attempted and the last scene's draft and      *)
(* finalized row are written; and the Exporter step is taken once, from    *)
(* the end of the loop straight to Done.                                   *)
C13_DriverStateMachine ==
    /\ [](/\ error.raised => attempted = <<>>
          /\ (CoveredRun /\ pc \in {"export", "done"}) =>
                /\ attempted = scenes_list
                /\ DraftWrittenThisRun(scenes_list[Len(scenes_list)])
                /\ FinalWrittenThisRun(scenes_list[Len(scenes_list)]))
    /\ [][(pc = "export" \/ manuscript' # manuscript) =>
              (pc = "export" /\ pc' = "done")]_vars

(* C14: a run over an empty outline ends before the loop: it never reaches *)
(* the Exporter or the completion report, raises no failure, makes no      *)
(* generation call and writes no run-log, draft or finalized row and no    *)
(* manuscript.                                                             *)
C14_EmptyOutlineAborts ==
    story_outline = {} =>
        /\ pc \notin {"export", "done"}
        /\ ~error.raised
        /\ attempted = <<>>
        /\ write_log = <<>> /\ drafts = <<>> /\ finalized_scenes = {}
        /\ ~manuscript.written

(* C15: at the end of the first run over a fully covered outline of N      *)
(* scenes there are exactly N finalized rows, N drafts and N run-log rows, *)
(* one of each per outline scene.                                          *)
C15_RowCountsOfCompleteRun ==
    (run = 1 /\ pc = "done" /\ Uncovered = {}) =>
        /\ Cardinality(finalized_scenes) = Cardinality(story_outline)
        /\ Len(drafts) = Cardinality(story_outline)
        /\ Len(write_log) = Cardinality(story_outline)
        /\ \A k \in story_outline :
              /\ Cardinality(FinalOf(k)) = 1
              /\ Cardinality({i \in 1..Len(drafts) : drafts[i].title = k}) = 1
              /\ Cardinality({i \in 1..Len(write_log) :
                      write_log[i].act = k[1] /\ write_log[i].scene = k[2]}) = 1

(* C16: the manuscript the Exporter has just written holds one block per   *)
(* finalized row, in ascending (act, scene) order, each with the current   *)
(* finalized text of its scene: no scene twice, none left out.             *)
C16_ExportInOutlineOrder ==
    (pc = "done" /\ finalized_scenes # {}) =>
        LET b == manuscript.blocks
        IN  /\ manuscript.written
            /\ Len(b) = Cardinality(finalized_scenes)
            /\ \A i, j \in 1..Len(b) : i < j => Before(b[i].scene, b[j].scene)
            /\ \A i \in 1..Len(b) :
                  \E r \in finalized_scenes :
                      /\ <<r.act, r.scene>> = b[i].scene
                      /\ r.final_text = b[i].text

(* C16 witness: the second run has exported at least three scenes of two   *)
(* acts, one of them with the text the second run generated.               *)
C16_Witness ==
    /\ pc = "done"
    /\ run = 2
    /\ Len(manuscript.blocks) >= 3
    /\ \E i, j \in 1..Len(manuscript.blocks) :
          manuscript.blocks[i].scene[1] # manuscript.blocks[j].scene[1]
    /\ \E i \in 1..Len(manuscript.blocks) :
          manuscript.blocks[i].text = GenText("scene", 2, manuscript.blocks[i].scene)

BrainstormVersions ==
    {n \in 1..MaxVersion : TableName(BRAINSTORM_PREFIX, n) \in tables}

(* C18: the brainstorm table a run resolves is the one {prefix}_v{N} with  *)
(* the numerically largest N among the tables of the database, and none    *)
(* when the database has no such table.                                    *)
C18_LatestTableIsNumericMax ==
    run > 0 =>
        IF BrainstormVersions = {} THEN brainstorm_table = NoTable
        ELSE \E n \in BrainstormVersions :
                 /\ \A m \in BrainstormVersions : m <= n
                 /\ brainstorm_table = TableName(BRAINSTORM_PREFIX, n)

(* C18 witness: with tables v2, v9 and v10 the run resolved v10.           *)
C18_Witness ==
    /\ run > 0
    /\ {TableName(BRAINSTORM_PREFIX, 2), TableName(BRAINSTORM_PREFIX, 9),
         TableName(BRAINSTORM_PREFIX, 10)} \subseteq tables
    /\ brainstorm_table = <<BRAINSTORM_PREFIX, "_v", "1", "0">>

(* positions of the drafts of scene k, in insertion order *)
DraftsOf(k) == {i \in 1..Len(drafts) : drafts[i].title = k}

(* C19: saving a draft only ever appends a row to the drafts, and the k-th *)
(* draft of a scene carries version k, so the versions of one scene's      *)
(* drafts are 1..k without duplicates.                                     *)
C19_DraftVersionsIncrement ==
    /\ [](\A k \in story_outline :
              \A i \in DraftsOf(k) :
                  drafts[i].version = Cardinality({j \in DraftsOf(k) : j <= i}))
    /\ [][/\ Len(drafts') >= Len(drafts)
           /\ Prefix(drafts', Len(drafts)) = drafts]_vars

(* C20: once a generation attempt has been logged and its draft saved, the *)
(* last row of the run log holds the prompt that was sent and the output   *)
(* that came back for that scene, and it is the only row with them; and no *)
(* step changes or removes a row of the run log.                           *)
C20_RunLogAppendOnly ==
    /\ [](pc = "save_final" =>
              /\ write_log # <<>>
              /\ write_log[Len(write_log)] =
                     [act    |-> scenes_list[idx][1],
                      scene  |-> scenes_list[idx][2],
                      prompt |-> prompt,
                      output |-> scene_text]
              /\ Cardinality({i \in 1..Len(write_log) :
                      write_log[i].output = scene_text}) = 1)
    /\ [][/\ Len(write_log') >= Len(write_log)
           /\ Prefix(write_log', Len(write_log)) = write_log]_vars

(* buckets with a brainstorm row for the scene at position idx *)
BucketsWithData ==
    {r[3] : r \in {x \in brainstorm : x[1] = scenes_list[idx][1]
                                       /\ x[2] = scenes_list[idx][2]}}

(* C21: the buckets that get a framing in the guidance section of the      *)
(* prompt built for a scene are exactly the buckets that have brainstorm   *)
(* data for that scene.                                                    *)
C21_GuidanceForPresentBuckets ==
    pc = "generate" =>
        {g.bucket : g \in prompt.guidance} = BucketsWithData

(* C21 witness: the current scene has data for "scripts" only, another     *)
(* scene has data for "books", and the guidance frames "scripts" only.     *)
C21_Witness ==
    /\ pc = "generate"
    /\ idx > 1
    /\ BucketsWithData = {"scripts"}
    /\ <<scenes_list[1][1], scenes_list[1][2], "books">> \in brainstorm
    /\ {g.bucket : g \in prompt.guidance} = {"scripts"}

(* the builder is called with the inputs that produced the prompt at hand  *)
SameBuilderInputs(p, q) ==
    /\ p.metadata = q.metadata /\ p.characters = q.characters
    /\ p.scene = q.scene /\ p.buckets = q.buckets /\ p.outline = q.outline
    /\ p.prev = q.prev /\ p.next = q.next
    /\ p.style = q.style /\ p.tone = q.tone

(* C22: a call of the prompt builder with the metadata, characters, scene, *)
(* bucket context, outline snapshot, previous text, next description and   *)
(* style and tone of an earlier call returns the prompt of that call.      *)
C22_PromptDeterministic ==
    [][(pc = "context" /\ pc' = "generate" /\ SameBuilderInputs(prompt, prompt'))
          => prompt' = prompt]_vars

(* C23: context assembly raises nothing; a scene without a finalized       *)
(* predecessor gets the previous-scene placeholder, the last scene gets    *)
(* the empty next description, a project without a brainstorm table gets   *)
(* the empty bucket context; and in such a project every scene the driver  *)
(* has moved past was generated and has its draft and finalized row.       *)
C23_MissingContextIsNoError ==
    /\ ~error.raised
    /\ pc = "generate" =>
          /\ (idx = 1 /\ finalized_scenes = {}) => prompt.prev = NO_PREVIOUS_SCENE
          /\ idx = Len(scenes_list) => prompt.next = NoText
          /\ tables = {} => prompt.buckets = {} /\ prompt.guidance = {}
    /\ tables = {} =>
          \A j \in 1..Len(scenes_list) :
              Passed(j) =>
                  /\ j <= Len(attempted) /\ attempted[j] = scenes_list[j]
                  /\ DraftWrittenThisRun(scenes_list[j])
                  /\ FinalWrittenThisRun(scenes_list[j])

(* C24: no step of a generation run changes the characters, the outline   *)
(* (keys and titles), the project metadata or the brainstorm entries.     *)
C24_InputsReadOnly ==
    [][UNCHANGED <<characters, story_outline, scene_title, metadata,
                   brainstorm, tables>>]_vars

(* two complete runs over a project with brainstorm entries, one of them  *)
(* with a swallowed failure, have read every kind of input                 *)
C24_Witness ==
    /\ pc = "done" /\ run = 2 /\ failures = 1
    /\ brainstorm # {} /\ tables # {} /\ finalized_scenes # {}
    /\ Len(scenes_list) >= 2

(* the previous run was stopped by the user after its first scenes were   *)
(* persisted                                                               *)
StoppedAfterPersisted ==
    /\ cancelled.run > 0 /\ cancelled.passed >= 1
    /\ \A j \in 1..cancelled.passed :
          FinalRows(cancelled.finals, scenes_list[j][1], scenes_list[j][2]) # {}

LatestDraftOf(k) ==
    drafts[CHOOSE i \in 1..Len(drafts) :
               /\ drafts[i].title = k
               /\ \A j \in 1..Len(drafts) : drafts[j].title = k => j <= i]

FinalKeys == {<<r.act, r.scene>> : r \in finalized_scenes}

C26_OutlineKeyUnique ==
    /\ [](\A r \in story_outline : RowsOfKey(story_outline, r) = {r})
    /\ [][\A r \in story_outline' \ story_outline :
              RowsOfKey(story_outline, r) = {}]_vars

(* the API's insert was refused by the table after its own check had      *)
(* found no such scene, and the form was turned into an edit               *)
C26_Witness ==
    /\ intake["api"].last = "integrity_error"
    /\ intake["cli"].last = "updated"
    /\ Cardinality(story_outline) >= 2

(* C29: editing the content of the selected draft d changes the content   *)
(* and the notes of d and leaves every other row of drafts as it was.      *)
C29_EditTouchesOnlySelected ==
    [][\A d \in 1..Len(drafts) :
          EditContent(d) =>
              /\ Len(drafts') = Len(drafts)
              /\ drafts'[d].notes = Append(drafts[d].notes, MANUALLY_EDITED)
              /\ \A i \in 1..Len(drafts) : i # d => drafts'[i] = drafts[i]]_vars

(* C30: creating a new version of draft d appends one row with d's title  *)
(* and content, status revision and the title's highest version plus one;  *)
(* the rows that were there are unchanged, and no other draft of the title *)
(* has the new row's version.                                              *)
C30_NewVersionIsFresh ==
    [][\A d \in 1..Len(drafts) :
          CreateNewVersion(d) =>
              LET new == drafts'[Len(drafts')]
              IN  /\ Len(drafts') = Len(drafts) + 1
                  /\ \A i \in 1..Len(drafts) : drafts'[i] = drafts[i]
                  /\ new.title = drafts[d].title
                  /\ new.content = drafts[d].content
                  /\ new.completion_status = "revision"
                  /\ new.version = MaxVersionOfTitle(drafts, new.title) + 1
                  /\ \A i \in 1..Len(drafts) :
                        drafts[i].title = new.title => drafts[i].version # new.version]_vars

(* a second version existed and was edited, and a new version was made    *)
(* from the version-1 draft of the same title: the title's highest version *)
(* was not the copied draft's                                              *)
C30_Witness ==
    /\ Len(drafts) = 3
    /\ \A i \in 1..3 : drafts[i].title = drafts[1].title
    /\ drafts[1].version = 1 /\ drafts[2].version = 2 /\ drafts[3].version = 3
    /\ drafts[3].completion_status = "revision"
    /\ drafts[2].content = EDITED_CONTENT
    /\ drafts[1].content # EDITED_CONTENT
    /\ drafts[3].content = drafts[1].content

====
